---- MODULE Spec2Model ----
(***************************************************************************)
(* A model of develersrl/lunches: the tuttobene menu parser                *)
(* (src/pkg/brain/brain.go, package tuttobene) and the tinabot Order       *)
(* aggregator with its key-value store.                                    *)
(*                                                                         *)
(* A Go string is a sequence of atoms.  An atom is a whitespace character  *)
(* (SP), a punctuation or currency character, a digit, or a whole word.    *)
(* Go slices are 0-based, the sequences here 1-based: a Go index i is the  *)
(* position i+1 here.                                                      *)
(***************************************************************************)
EXTENDS Integers, Sequences, FiniteSets, TLC

VARIABLES
    \* ---- parser (package tuttobene) ----
    sheet,          \* xlsx.Sheet.Rows: a sequence of rows, a row a sequence of cell strings
    pc,             \* position of the parse: "sheet", "titles", "rows", "finish", "done"
    nameCol,        \* ParseSheet: nameCol
    priceCol,       \* ParseSheet: priceCol
    pending,        \* getMenuTitles: the entries of Titles the range has not visited yet
    menuTitles,     \* getMenuTitles: menuTitlesRowIndexes (row position -> MenuRowType)
    lastTitleType,  \* getMenuTitles: lastTitleType
    idx,            \* ParseMenuCells: position of the next row of nameCol
    currentType,    \* ParseMenuCells: currentType
    menuRows,       \* ParseMenuCells: menuRows (the rows of the Menu)
    rowIdx,         \* history: for each element of menuRows, the position in nameCol that emitted it
    date,           \* ParseMenuCells: menuRows.Date
    dateIdx,        \* history: the position in nameCol that set the date (0: none)
    stopIdx,        \* history: the position at which the row loop executed break (0: none)
    found,          \* history: title -> results[0], for the titles visited with len(results) > 0
    err,            \* the error ParseSheet returns ("" is nil)
    \* ---- order (package tinabot) ----
    selections,     \* Order: the users' entries, in the order they were added
    timestamp,      \* Order.Timestamp
    clock,          \* the host's clock (time.Now)
    store,          \* the key-value store: key -> encoded value
    fresh,          \* a second Order, created by NewOrder and filled by Load
    lastOp,         \* history: the last two operations on the Order, newest first
    latest,         \* history: user -> choices of the user's most recent Set (<<>> when cleared since)
    \* ---- store (package brain) ----
    written         \* history: key -> the value of the last Set of the key that was stored

parseVars == <<sheet, pc, nameCol, priceCol, pending, menuTitles, lastTitleType,
               idx, currentType, menuRows, rowIdx, date, dateIdx, stopIdx, found, err>>
orderVars == <<selections, timestamp, clock, store, fresh, lastOp, latest>>
brainVars == <<written>>
vars == <<parseVars, orderVars, brainVars>>

(***************************************************************************)
(* Strings                                                                 *)
(***************************************************************************)
SP == " "

RECURSIVE TrimLeft(_)
TrimLeft(s) == IF s # <<>> /\ Head(s) = SP THEN TrimLeft(Tail(s)) ELSE s

RECURSIVE TrimRight(_)
TrimRight(s) ==
    IF s # <<>> /\ s[Len(s)] = SP THEN TrimRight(SubSeq(s, 1, Len(s) - 1)) ELSE s

\* strings.TrimSpace
TrimSpace(s) == TrimRight(TrimLeft(s))

\* strings.HasPrefix, strings.HasSuffix, strings.TrimPrefix
HasPrefix(s, p) == Len(s) >= Len(p) /\ SubSeq(s, 1, Len(p)) = p
HasSuffix(s, p) == Len(s) >= Len(p) /\ SubSeq(s, Len(s) - Len(p) + 1, Len(s)) = p
TrimPrefix(s, p) == IF HasPrefix(s, p) THEN SubSeq(s, Len(p) + 1, Len(s)) ELSE s

\* strings.Replace(s, old, "", -1) for a one-atom old
RECURSIVE RemoveAll(_, _)
RemoveAll(s, a) ==
    IF s = <<>> THEN <<>>
    ELSE IF Head(s) = a THEN RemoveAll(Tail(s), a)
    ELSE <<Head(s)>> \o RemoveAll(Tail(s), a)

\* strings.ToLower, atom by atom, for the capitalised atoms of the model's sheets
LowerAtom(a) ==
    CASE a = "PRIMI" -> "primi"
      [] a = "SECONDI" -> "secondi"
      [] a = "PIATTI" -> "piatti"
      [] a = "CONTORNI" -> "contorni"
      [] a = "VEGETARIANI" -> "vegetariani"
      [] a = "I" -> "i"
      [] a = "NOSTRI" -> "nostri"
      [] a = "PANINI" -> "panini"
      [] a = "ESPRESSI" -> "espressi"
      [] a = "TuttoBene" -> "tuttobene"
      [] a = "Grigliate" -> "grigliate"
      [] a = "ZUCCHINE" -> "zucchine"
      [] a = "Lasagne" -> "lasagne"
      [] OTHER -> a
ToLower(s) == [i \in 1..Len(s) |-> LowerAtom(s[i])]

\* strings.Title of a lower-case word
TitleAtom(a) ==
    CASE a = "zucchine" -> "Zucchine"
      [] a = "lasagne" -> "Lasagne"
      [] OTHER -> a

\* whether the word a starts with the letters of p (strings.HasPrefix inside one word)
AtomHasPrefix(a, p) ==
    \/ a = p
    \/ p = "grigliat" /\ a \in {"grigliate", "grigliata", "grigliati"}

\* strings.Join(strings.Fields(s), " ")
RECURSIVE CollapseSpaces(_)
CollapseSpaces(s) ==
    IF s = <<>> THEN <<>>
    ELSE IF Head(s) = SP
         THEN <<SP>> \o CollapseSpaces(TrimLeft(s))
         ELSE <<Head(s)>> \o CollapseSpaces(Tail(s))
normalizeSpaces(s) == CollapseSpaces(TrimSpace(s))

(***************************************************************************)
(* MenuRowType and the canonical titles                                    *)
(***************************************************************************)
Unknonwn == 0
Empty == 1
Primo == 2
Secondo == 3
Contorno == 4
Vegetariano == 5
Frutta == 6
Dolce == 7
Panino == 8

Titles ==
    (Primo :> <<"primi", SP, "piatti">>) @@
    (Secondo :> <<"secondi", SP, "piatti">>) @@
    (Contorno :> <<"contorni">>) @@
    (Vegetariano :> <<"piatti", SP, "vegetariani">>) @@
    (Frutta :> <<"frutta">>) @@
    (Dolce :> <<"dolci">>) @@
    (Panino :> <<"i", SP, "nostri", SP, "panini", SP, "espressi">>)

(***************************************************************************)
(* fuzzy.Find (github.com/sahilm/fuzzy), as getMenuTitles uses it.         *)
(* The library matches the pattern's characters, case-insensitively and in *)
(* order, inside each row; it scores a match with a bonus for each matched *)
(* character and a penalty for each unmatched character of the row, and    *)
(* returns the matches sorted by descending score.  Here the same is done  *)
(* atom by atom.  Rows of equal score may come out in either order.        *)
(***************************************************************************)
RECURSIVE IsSubseq(_, _)
IsSubseq(p, s) ==
    IF p = <<>> THEN TRUE
    ELSE IF s = <<>> THEN FALSE
    ELSE IF Head(p) = Head(s) THEN IsSubseq(Tail(p), Tail(s))
    ELSE IsSubseq(p, Tail(s))

FuzzyMatches(pattern, str) == pattern # <<>> /\ IsSubseq(pattern, ToLower(str))
FuzzyScore(pattern, str) == 3 * Len(pattern) - 2 * (Len(str) - Len(pattern))

\* the values results[0] can take: {} when len(results) == 0
FuzzyFind(pattern, rows) ==
    LET hits == {i \in 1..Len(rows) : FuzzyMatches(pattern, rows[i])}
    IN  {[Index |-> i, Score |-> FuzzyScore(pattern, rows[i])] :
            i \in {j \in hits : \A k \in hits :
                      FuzzyScore(pattern, rows[k]) <= FuzzyScore(pattern, rows[j])}}

(***************************************************************************)
(* getMenuTitles: one iteration of "for t, title := range Titles", for the *)
(* title t with any = (len(results) # 0) and r = results[0].               *)
(***************************************************************************)
\* a locator that lets a second title take a row already taken
VisitTitleOverwrite(t, any, r, m, last) ==
    IF ~any \/ r.Score < 0 THEN [err |-> "", titles |-> m]
    ELSE IF t < last THEN [err |-> "Unexpected title order", titles |-> m]
    ELSE [err |-> "", titles |-> (r.Index :> t) @@ m]

\* a locator for which a title without match is an error
VisitTitleRequired(t, any, r, m, last) ==
    IF ~any \/ r.Score < 0 THEN [err |-> "Missing title", titles |-> m]
    ELSE IF t < last THEN [err |-> "Unexpected title order", titles |-> m]
    ELSE IF r.Index \in DOMAIN m THEN [err |-> "Unexptected title duplicate", titles |-> m]
    ELSE [err |-> "", titles |-> (r.Index :> t) @@ m]

\* a locator that compares a title with the largest title accepted before it
VisitTitleTracking(t, any, r, m, last) ==
    IF ~any \/ r.Score < 0 THEN [err |-> "", titles |-> m]
    ELSE IF \E i \in DOMAIN m : t < m[i] THEN [err |-> "Unexpected title order", titles |-> m]
    ELSE IF r.Index \in DOMAIN m THEN [err |-> "Unexptected title duplicate", titles |-> m]
    ELSE [err |-> "", titles |-> (r.Index :> t) @@ m]

VisitTitle(t, any, r, m, last) ==
    IF ~any \/ r.Score < 0 THEN [err |-> "", titles |-> m]
    ELSE IF t < last THEN [err |-> "Unexpected title order", titles |-> m]
    ELSE IF r.Index \in DOMAIN m THEN [err |-> "Unexptected title duplicate", titles |-> m]
    ELSE [err |-> "", titles |-> (r.Index :> t) @@ m]

(***************************************************************************)
(* decimal.NewFromString (github.com/shopspring/decimal) and parsePrice.   *)
(* A decimal is [neg, coef, exp]: the number (-1)^neg * coef * 10^exp.     *)
(***************************************************************************)
DigitAtoms == <<"0", "1", "2", "3", "4", "5", "6", "7", "8", "9">>
IsDigit(a) == \E i \in 1..Len(DigitAtoms) : DigitAtoms[i] = a
DigitVal(a) == (CHOOSE i \in 1..Len(DigitAtoms) : DigitAtoms[i] = a) - 1

RECURSIVE DigitsValue(_)
DigitsValue(ds) ==
    IF ds = <<>> THEN 0 ELSE 10 * DigitsValue(SubSeq(ds, 1, Len(ds) - 1)) + DigitVal(ds[Len(ds)])

RECURSIVE TrimRightZeros(_)
TrimRightZeros(s) ==
    IF s # <<>> /\ s[Len(s)] = "0" THEN TrimRightZeros(SubSeq(s, 1, Len(s) - 1)) ELSE s

DecimalZero == [neg |-> FALSE, coef |-> 0, exp |-> 0]

\* big.Int.SetString(s, 10): an optional sign, then one or more digits
SetString(s) ==
    LET signed == s # <<>> /\ Head(s) \in {"-", "+"}
        ds == IF signed THEN Tail(s) ELSE s
    IN  IF ds = <<>> \/ \E i \in 1..Len(ds) : ~IsDigit(ds[i])
        THEN [ok |-> FALSE, neg |-> FALSE, coef |-> 0]
        ELSE [ok |-> TRUE, neg |-> signed /\ Head(s) = "-" /\ DigitsValue(ds) # 0,
              coef |-> DigitsValue(ds)]

NewFromString(value) ==
    LET dots == {i \in 1..Len(value) : value[i] = "."}
    IN  IF Cardinality(dots) > 1 THEN [ok |-> FALSE, val |-> DecimalZero]
        ELSE LET d == IF dots = {} THEN Len(value) + 1 ELSE CHOOSE i \in dots : TRUE
                 decimalPart == TrimRightZeros(SubSeq(value, d + 1, Len(value)))
                 n == SetString(SubSeq(value, 1, d - 1) \o decimalPart)
             IN  IF ~n.ok THEN [ok |-> FALSE, val |-> DecimalZero]
                 ELSE [ok |-> TRUE,
                       val |-> [neg |-> n.neg, coef |-> n.coef, exp |-> 0 - Len(decimalPart)]]

\* a price parser that reads a cell it cannot parse, or a missing cell, as the amount 1
parsePriceLenient(col, i) ==
    IF i > Len(col) THEN [neg |-> FALSE, coef |-> 1, exp |-> 0]
    ELSE LET d == NewFromString(TrimSpace(RemoveAll(col[i], "EUR")))
         IN  IF ~d.ok THEN [neg |-> FALSE, coef |-> 1, exp |-> 0] ELSE d.val

parsePrice(col, i) ==
    IF i > Len(col) THEN DecimalZero
    ELSE LET d == NewFromString(TrimSpace(RemoveAll(col[i], "EUR")))
         IN  IF ~d.ok THEN DecimalZero ELSE d.val

(***************************************************************************)
(* parseRow, trimPrefixAll, parseDate, normalizeDish                       *)
(***************************************************************************)
dailyProposalPrefixes ==
    << <<"Proposta", SP, "del", SP, "giorno:", SP>>,
       <<"Prop.", SP, "del", SP, "giorno:", SP>> >>

\* a trimmer that stops at the first prefix it has trimmed
RECURSIVE trimPrefixFirst(_, _)
trimPrefixFirst(s, prefixes) ==
    IF prefixes = <<>> THEN [s |-> s, trimmed |-> FALSE]
    ELSE IF HasPrefix(s, Head(prefixes))
         THEN [s |-> TrimPrefix(s, Head(prefixes)), trimmed |-> TRUE]
         ELSE trimPrefixFirst(s, Tail(prefixes))

RECURSIVE trimPrefixAll(_, _)
trimPrefixAll(s, prefixes) ==
    IF prefixes = <<>> THEN [s |-> s, trimmed |-> FALSE]
    ELSE IF HasPrefix(s, Head(prefixes))
         THEN [s |-> trimPrefixAll(TrimPrefix(s, Head(prefixes)), Tail(prefixes)).s,
               trimmed |-> TRUE]
         ELSE trimPrefixAll(s, Tail(prefixes))

parseRow(i, content, titles) ==
    IF content = <<>>
    THEN [content |-> content, rowType |-> Empty, isTitle |-> FALSE, isDailyProposal |-> FALSE]
    ELSE IF i \in DOMAIN titles
    THEN [content |-> content, rowType |-> titles[i], isTitle |-> TRUE,
          isDailyProposal |-> FALSE]
    ELSE LET t == trimPrefixAll(content, dailyProposalPrefixes)
         IN  [content |-> t.s, rowType |-> Unknonwn, isTitle |-> FALSE,
              isDailyProposal |-> t.trimmed]

\* parseDate: a row is a date when it is the date line of the sheet
DateLine == <<"Lunedi", SP, "4", SP, "marzo">>
NoDate == <<>>
Today == <<"today">>
parseDate(s) == [isDate |-> s = DateLine, date |-> IF s = DateLine THEN s ELSE NoDate]

\* strings.Split(s, " ")
RECURSIVE SplitSpace(_)
SplitSpace(s) ==
    IF \A i \in 1..Len(s) : s[i] # SP THEN <<s>>
    ELSE LET k == CHOOSE i \in 1..Len(s) : s[i] = SP /\ \A j \in 1..(i - 1) : s[j] # SP
         IN  <<SubSeq(s, 1, k - 1)>> \o SplitSpace(SubSeq(s, k + 1, Len(s)))

normalizeTab ==
    << [Find |-> "grigliat", Replace |-> <<SP, "alla", SP, "griglia">>],
       [Find |-> "vapore", Replace |-> <<SP, "al", SP, "vapore">>] >>

RECURSIVE normalizeContent(_, _)
normalizeContent(c, tab) ==
    IF tab = <<>> THEN c
    ELSE LET l == SplitSpace(c)
             hit == c # <<>> /\ AtomHasPrefix(LowerAtom(c[1]), Head(tab).Find)
             c2 == IF hit /\ Len(l) = 2
                   THEN [i \in 1..Len(l[2]) |-> TitleAtom(LowerAtom(l[2][i]))]
                        \o Head(tab).Replace
                   ELSE c
         IN  normalizeContent(c2, Tail(tab))

normalizeDish(r) ==
    IF r.Type = Contorno THEN [r EXCEPT !.Content = normalizeContent(r.Content, normalizeTab)]
    ELSE r

MarkerSuffix == <<"(sono", SP, "sempre", SP, "disponibili)">>
MarkerLine == <<"Pasta", SP, "al", SP, "ragu,", SP, "pesto", SP, "o", SP, "pomodoro", SP>>
              \o MarkerSuffix

MenuRow(content, type, daily, price) ==
    [Content |-> content, Type |-> type, IsDailyProposal |-> daily, Price |-> price]

\* an expansion that forgets the third of the three fixed rows
EmitRowsTwo(content, type, daily, price) ==
    IF HasSuffix(content, MarkerSuffix)
    THEN << MenuRow(<<"Pasta", SP, "al", SP, "ragu">>, type, FALSE, price),
            MenuRow(<<"Pasta", SP, "al", SP, "pesto">>, type, FALSE, price) >>
    ELSE << normalizeDish(MenuRow(TrimSpace(content), type, daily, price)) >>

\* an emission that files every dish under the first section
EmitRowsFirstSection(content, type, daily, price) ==
    IF HasSuffix(content, MarkerSuffix)
    THEN << MenuRow(<<"Pasta", SP, "al", SP, "ragu">>, Primo, FALSE, price),
            MenuRow(<<"Pasta", SP, "al", SP, "pesto">>, Primo, FALSE, price),
            MenuRow(<<"Pasta", SP, "al", SP, "pomodoro">>, Primo, FALSE, price) >>
    ELSE << normalizeDish(MenuRow(TrimSpace(content), Primo, daily, price)) >>

\* ParseMenuCells, lines 233-266: the MenuRows a dish row adds to the menu
EmitRows(content, type, daily, price) ==
    IF HasSuffix(content, MarkerSuffix)
    THEN << MenuRow(<<"Pasta", SP, "al", SP, "ragu">>, type, FALSE, price),
            MenuRow(<<"Pasta", SP, "al", SP, "pesto">>, type, FALSE, price),
            MenuRow(<<"Pasta", SP, "al", SP, "pomodoro">>, type, FALSE, price) >>
    ELSE << normalizeDish(MenuRow(TrimSpace(content), type, daily, price)) >>

(***************************************************************************)
(* The sheets the parser is run on.                                        *)
(***************************************************************************)
MinRows == 12

BodyLen == 4      \* rows of a sheet drawn from the section skeleton
PriceLen == 3     \* atoms of a price cell drawn from the price alphabet
ShapeRows == 3    \* rows of a sheet whose number of cells varies
ExtraRows == 1    \* rows a sheet may have beyond MinRows

sBlank == <<>>
sPrimi == <<"PRIMI", SP, "PIATTI">>
sSecondi == <<"SECONDI", SP, "PIATTI">>
sContorni == <<"CONTORNI">>
sPanini == <<"I", SP, "NOSTRI", SP, "PANINI", SP, "ESPRESSI">>
sDish == <<"Lasagne">>
sSpaced == <<SP, "Lasagne", SP, SP, "verdi", SP>>
sBothTitles == <<"PRIMI", SP, "PIATTI", SP, "VEGETARIANI">>
sLongTitle == <<"Oggi", SP, "secondi", SP, "piatti", SP, "di", SP, "pesce">>
sProposal == <<"Proposta", SP, "del", SP, "giorno:", SP, "Orata">>
sProposal2 == <<"Prop.", SP, "del", SP, "giorno:", SP, "Orata">>
sBothPrefixes == <<"Proposta", SP, "del", SP, "giorno:", SP,
                   "Prop.", SP, "del", SP, "giorno:", SP, "Orata">>
sMarkerLike == <<"Riso", SP>> \o MarkerSuffix
sGrill == <<"Grigliate", SP, "ZUCCHINE">>

CoreNames == {sBlank, sPrimi, sPanini, sDish}
AllNames == CoreNames \cup {sSecondi, sContorni, sSpaced, sBothTitles, sLongTitle, sProposal,
                            sProposal2, sBothPrefixes, MarkerLine, sMarkerLike, sGrill,
                            DateLine, <<SP>>}

PriceAtoms == {"EUR", SP, "-", ".", "5", "x"}
RECURSIVE StringsUpTo(_, _)
StringsUpTo(alphabet, n) ==
    IF n = 0 THEN {<<>>}
    ELSE LET shorter == StringsUpTo(alphabet, n - 1)
         IN  shorter \cup {Append(s, a) : s \in shorter, a \in alphabet}

RECURSIVE DigitsOf(_)
DigitsOf(n) ==
    IF n < 10 THEN <<DigitAtoms[n + 1]>>
    ELSE Append(DigitsOf(n \div 10), DigitAtoms[(n % 10) + 1])

\* the price cell the model writes on spreadsheet row i: the amount i
PriceOfRow(i) == <<"EUR", SP>> \o DigitsOf(i)

\* a spreadsheet row: a margin cell on the shifted layout, the name, the price,
\* cut to its first cells cells
MakeRow(shifted, name, price, cells) ==
    LET full == (IF shifted THEN <<sBlank>> ELSE <<>>) \o <<name, price>>
    IN  SubSeq(full, 1, IF cells < Len(full) THEN cells ELSE Len(full))

\* rows names[1..], each with its own price, then blank one-cell rows up to n rows
PlainSheet(names, n) ==
    [i \in 1..n |-> IF i <= Len(names) THEN MakeRow(FALSE, names[i], PriceOfRow(i), 2)
                    ELSE MakeRow(FALSE, sBlank, <<>>, 1)]

\* a title row, then a dish row for each price cell that is p and one more atom, and a
\* dish row with an empty price cell
PriceAtomSeq == <<"EUR", SP, "-", ".", "5", "x">>
PriceSheet(p) ==
    [i \in 1..MinRows |->
        IF i = 1 THEN MakeRow(FALSE, sPrimi, PriceOfRow(1), 2)
        ELSE IF i - 1 <= Len(PriceAtomSeq)
             THEN MakeRow(FALSE, sDish, Append(p, PriceAtomSeq[i - 1]), 2)
        ELSE IF i = Len(PriceAtomSeq) + 2 THEN MakeRow(FALSE, sDish, <<>>, 2)
        ELSE MakeRow(FALSE, sBlank, <<>>, 1)]

TitleHeads == {<<>>, <<sPrimi>>, <<sContorni>>}

Sheets ==
    \* the section skeleton: titles, dishes and blank rows in every order
    {PlainSheet(b, MinRows) : b \in [1..BodyLen -> CoreNames]}
    \* every kind of row, alone, under a title and above a title
    \cup {PlainSheet(h \o <<n>>, MinRows) : h \in TitleHeads, n \in AllNames}
    \cup {PlainSheet(<<n>> \o h, MinRows) : h \in TitleHeads, n \in AllNames}
    \* every price cell
    \cup {PriceSheet(p) : p \in StringsUpTo(PriceAtoms, PriceLen - 1)}
    \* every number of cells per row, on both layouts; the rows below carry a price
    \cup {[i \in 1..MinRows |->
             IF i > ShapeRows THEN MakeRow(sh, sBlank, PriceOfRow(i), 3)
             ELSE IF i = 1 /\ sh THEN MakeRow(sh, <<SP, "TuttoBene">>, <<>>, c[i])
             ELSE MakeRow(sh, IF i = 2 THEN sPrimi ELSE sDish, PriceOfRow(i), c[i])] :
             sh \in BOOLEAN, c \in [1..ShapeRows -> 0..3]}
    \* a date line, a dish or a blank row above and below the first title
    \cup {PlainSheet(<<a, sPrimi, b>>, MinRows) : a \in {DateLine, sDish, sBlank},
                                                 b \in {DateLine, sDish, sBlank}}
    \* every number of rows
    \cup {PlainSheet(<<sPrimi, sDish>>, n) : n \in 0..(MinRows + ExtraRows)}
    \cup {PlainSheet(b, n) : b \in [1..BodyLen -> CoreNames], n \in {BodyLen, MinRows - 1}}

(***************************************************************************)
(* ParseSheet                                                              *)
(***************************************************************************)
\* a row check that is off by one
EnoughRowsOffByOne(s) == ~(Len(s) < MinRows - 1)

EnoughRows(s) == ~(Len(s) < MinRows)

\* lines 145-153: the column of the dish names (0 or 1)
NameColumn(s) ==
    IF Len(s[1]) >= 2 /\ ToLower(TrimSpace(s[1][2])) = <<"tuttobene">> THEN 1 ELSE 0

\* lines 155-163: the cells of column c (0-based) of the rows that have one
RECURSIVE Column(_, _)
Column(s, c) ==
    IF s = <<>> THEN <<>>
    ELSE (IF Len(Head(s)) >= c + 1 THEN <<Head(s)[c + 1]>> ELSE <<>>) \o Column(Tail(s), c)

\* where ParseMenuCells goes after getMenuTitles returned nil error
AfterTitles(names) == IF names = <<>> THEN "finish" ELSE "rows"

ParseSheet ==
    /\ pc = "sheet"
    /\ IF ~EnoughRows(sheet)
       THEN /\ err' = "not enough rows"
            /\ pc' = "done"
            /\ UNCHANGED <<nameCol, priceCol, pending>>
       ELSE /\ nameCol' = Column(sheet, NameColumn(sheet))
            /\ priceCol' = Column(sheet, NameColumn(sheet) + 1)
            /\ pending' = DOMAIN Titles
            /\ pc' = "titles"
            /\ err' = ""
    /\ UNCHANGED <<sheet, menuTitles, lastTitleType, idx, currentType, menuRows, rowIdx,
                   date, dateIdx, stopIdx, found>>
    /\ UNCHANGED orderVars
    /\ UNCHANGED brainVars

\* one iteration of the range over Titles; the range visits the map in any order
GetMenuTitle ==
    /\ pc = "titles"
    /\ \E t \in pending :
         LET results == FuzzyFind(Titles[t], nameCol)
         IN  \E r \in IF results = {} THEN {[Index |-> 0, Score |-> 0]} ELSE results :
               LET v == VisitTitle(t, results # {}, r, menuTitles, lastTitleType)
               IN  /\ menuTitles' = v.titles
                   /\ found' = IF results = {} THEN found ELSE (t :> r) @@ found
                   /\ err' = v.err
                   /\ pending' = pending \ {t}
                   /\ pc' = IF v.err # "" THEN "done"
                            ELSE IF pending \ {t} = {} THEN AfterTitles(nameCol)
                            ELSE "titles"
    /\ UNCHANGED <<sheet, nameCol, priceCol, lastTitleType, idx, currentType, menuRows,
                   rowIdx, date, dateIdx, stopIdx>>
    /\ UNCHANGED orderVars
    /\ UNCHANGED brainVars

\* a row loop that takes the rows above the first title for dishes
NoSectionYetNever(type) == FALSE

\* line 217: no title row has been met yet
NoSectionYet(type) == type = Unknonwn

\* a row loop that never takes a blank row for the end of the menu
IsMenuEndNever(type, rowType) == FALSE

\* lines 226-228: the blank row that ends the menu
IsMenuEnd(type, rowType) == type = Panino /\ rowType = Empty

\* one iteration of "for idx, r := range nameCol"
ParseRow ==
    /\ pc = "rows"
    /\ LET r == nameCol[idx]
           p == parseRow(idx, normalizeSpaces(r), menuTitles)
           d == parseDate(normalizeSpaces(r))
           stop == ~p.isTitle /\ ~NoSectionYet(currentType)
                   /\ IsMenuEnd(currentType, p.rowType)
           emitted == IF p.isTitle \/ NoSectionYet(currentType) \/ p.rowType = Empty THEN <<>>
                      ELSE EmitRows(p.content, currentType, p.isDailyProposal,
                                    parsePrice(priceCol, idx))
       IN  /\ currentType' = IF p.isTitle THEN p.rowType ELSE currentType
           /\ IF ~p.isTitle /\ NoSectionYet(currentType) /\ d.isDate
              THEN date' = d.date /\ dateIdx' = idx
              ELSE UNCHANGED <<date, dateIdx>>
           /\ menuRows' = menuRows \o emitted
           /\ rowIdx' = rowIdx \o [i \in 1..Len(emitted) |-> idx]
           /\ stopIdx' = IF stop THEN idx ELSE stopIdx
           /\ idx' = idx + 1
           /\ pc' = IF stop \/ idx + 1 > Len(nameCol) THEN "finish" ELSE "rows"
    /\ UNCHANGED <<sheet, nameCol, priceCol, pending, menuTitles, lastTitleType, found, err>>
    /\ UNCHANGED orderVars
    /\ UNCHANGED brainVars

\* lines 269-278: the default date; LoadLocation fails on a host without the zone
Finish ==
    /\ pc = "finish"
    /\ IF date = NoDate
       THEN \E zone \in BOOLEAN :
              IF zone THEN date' = Today /\ err' = ""
              ELSE err' = "LoadLocation" /\ UNCHANGED date
       ELSE UNCHANGED <<date, err>>
    /\ pc' = "done"
    /\ UNCHANGED <<sheet, nameCol, priceCol, pending, menuTitles, lastTitleType, idx,
                   currentType, menuRows, rowIdx, dateIdx, stopIdx, found>>
    /\ UNCHANGED orderVars
    /\ UNCHANGED brainVars

\* ParseSheet returned a Menu (and a nil error)
Returned == pc = "done" /\ err = ""
\* ParseSheet returned nil and an error
Failed == pc = "done" /\ err # ""

(***************************************************************************)
(* The key-value store (package brain): values are stored JSON-encoded.    *)
(***************************************************************************)
\* encoding/json on a time.Time: the wall clock survives, the monotonic reading does not
MarshalTime(t) == [rfc3339 |-> t.wall]
UnmarshalTime(j) == [wall |-> j.rfc3339, mono |-> FALSE]

\* a value json.Marshal rejects (a channel, a function)
Unencodable == [chan |-> TRUE]
NoValue == [json |-> "null"]

\* json.Marshal of a value stored by this program
Marshal(val) ==
    IF "chan" \in DOMAIN val THEN [ok |-> FALSE, encoded |-> NoValue]
    ELSE [ok |-> TRUE,
          encoded |-> [json |-> "object", Timestamp |-> MarshalTime(val.Timestamp),
                       Selections |-> val.Selections]]

\* json.Unmarshal of an object into a map that is not nil: the map is reused, its
\* entries under keys absent from the object stay, the others are replaced
MergeEntries(old, new) ==
    SelectSeq(old, LAMBDA e : \A i \in 1..Len(new) : new[i].user # e.user) \o new

\* json.Unmarshal into the Order out
Unmarshal(encoded, out) ==
    [Timestamp |-> UnmarshalTime(encoded.Timestamp),
     Selections |-> MergeEntries(out.Selections, encoded.Selections)]

\* Brain.Set: the store after the call, and the error it returns
BrainSet(st, key, val) ==
    LET m == Marshal(val)
    IN  IF ~m.ok THEN [store |-> st, err |-> "json: unsupported type"]
        ELSE [store |-> (key :> m.encoded) @@ st, err |-> ""]

\* Brain.Get: the decoded value and the error; a missing key is the store's error
BrainGet(st, key, out) ==
    IF key \notin DOMAIN st THEN [val |-> out, err |-> "redis: nil"]
    ELSE [val |-> Unmarshal(st[key], out), err |-> ""]

(***************************************************************************)
(* Order (package tinabot)                                                 *)
(***************************************************************************)
MaxOps == 4       \* calls on the Order in one run; the clock ticks once per call

Users == {"test", "test2"}
Dishes == {"primo", "secondo"}
OrderKey == "order"

\* the arguments of Set: no choice, an empty choice, one or two choices of one dish,
\* one choice of two dishes
ChoiceLists ==
    {<<>>, << <<>> >>}
    \cup {<< <<d>> >> : d \in Dishes}
    \cup {<< <<d>>, <<e>> >> : d \in Dishes, e \in Dishes}
    \cup {<< <<d, e>> >> : d \in Dishes, e \in Dishes}

\* the dish contents of a list of UserChoices, in the order they were added
RECURSIVE Contents(_)
Contents(cs) == IF cs = <<>> THEN <<>> ELSE Head(cs) \o Contents(Tail(cs))

NewOrder == [Timestamp |-> [wall |-> 0, mono |-> FALSE], Selections |-> <<>>]

RECURSIVE WithoutUser(_, _)
WithoutUser(sel, u) ==
    IF sel = <<>> THEN <<>>
    ELSE IF Head(sel).user = u THEN WithoutUser(Tail(sel), u)
    ELSE <<Head(sel)>> \o WithoutUser(Tail(sel), u)

UserEntry(sel, u) ==
    IF \E i \in 1..Len(sel) : sel[i].user = u
    THEN sel[CHOOSE i \in 1..Len(sel) : sel[i].user = u].choices
    ELSE <<>>

\* a Set that adds the new choices to the user's earlier ones
OrderSetAdd(sel, u, cs) ==
    IF Contents(cs) = <<>> THEN sel ELSE Append(sel, [user |-> u, choices |-> cs])

\* a Set that stores the user's entry also when it holds no dish
OrderSetKeepEmpty(sel, u, cs) == Append(WithoutUser(sel, u), [user |-> u, choices |-> cs])

\* Order.Set: the selections after Set(u, cs)
OrderSet(sel, u, cs) ==
    IF Contents(cs) = <<>> THEN WithoutUser(sel, u)
    ELSE Append(WithoutUser(sel, u), [user |-> u, choices |-> cs])

\* a ClearUser that returns the user's dishes and leaves the entry in place
OrderClearUserKeep(sel, u) == [sel |-> sel, ret |-> Contents(UserEntry(sel, u))]

\* a ClearUser that, for a user without entry, removes the oldest entry instead
OrderClearUserOldest(sel, u) ==
    IF \E i \in 1..Len(sel) : sel[i].user = u
    THEN [sel |-> WithoutUser(sel, u), ret |-> Contents(UserEntry(sel, u))]
    ELSE [sel |-> IF sel = <<>> THEN sel ELSE Tail(sel),
          ret |-> IF sel = <<>> THEN <<>> ELSE Contents(Head(sel).choices)]

\* Order.ClearUser: the selections after ClearUser(u) and the string it returns
\* (the lines of the string: strings.Join(contents, "\n"))
OrderClearUser(sel, u) ==
    [sel |-> WithoutUser(sel, u), ret |-> Contents(UserEntry(sel, u))]

\* the aggregate: one line per dish content, in first-seen order
AddDish(lines, u, d) ==
    IF \E i \in 1..Len(lines) : lines[i].content = d
    THEN LET i == CHOOSE k \in 1..Len(lines) : lines[k].content = d
         IN  [lines EXCEPT ![i] =
                [content |-> d, count |-> lines[i].count + 1,
                 users |-> IF \E k \in 1..Len(lines[i].users) : lines[i].users[k] = u
                           THEN lines[i].users ELSE Append(lines[i].users, u)]]
    ELSE Append(lines, [content |-> d, count |-> 1, users |-> <<u>>])

RECURSIVE AddDishes(_, _, _)
AddDishes(lines, u, ds) ==
    IF ds = <<>> THEN lines ELSE AddDishes(AddDish(lines, u, Head(ds)), u, Tail(ds))

RECURSIVE Aggregate(_)
Aggregate(sel) ==
    IF sel = <<>> THEN <<>>
    ELSE AddDishes(Aggregate(SubSeq(sel, 1, Len(sel) - 1)),
                   sel[Len(sel)].user, Contents(sel[Len(sel)].choices))

\* Order.String: the lines "<count> <content> [<user>, ...]"
OrderString(sel) ==
    LET a == Aggregate(sel) IN [i \in 1..Len(a) |-> <<a[i].count, a[i].content, a[i].users>>]
\* Order.Format(false): the lines "<count> <content>"
OrderFormat(sel) ==
    LET a == Aggregate(sel) IN [i \in 1..Len(a) |-> <<a[i].count, a[i].content>>]

\* Order.Save and Order.Load
OrderSave(st, order) == BrainSet(st, OrderKey, order)
\* a Load that takes the selections from the store and keeps the receiver's timestamp
OrderLoadKeepTime(st, order) ==
    LET g == BrainGet(st, OrderKey, NewOrder)
    IN  [order |-> [Timestamp |-> order.Timestamp,
                    Selections |-> IF g.err = "" THEN g.val.Selections ELSE order.Selections],
         err |-> g.err]

\* Load replaces the receiver's state by the stored Order; on an error the receiver stays
OrderLoad(st, order) ==
    LET g == BrainGet(st, OrderKey, NewOrder)
    IN  [order |-> IF g.err = "" THEN g.val ELSE order, err |-> g.err]

\* Timestamp.Format("2006-01-02T15:04:05.999999-07:00")
FormatTime(t) == t.wall

Now(c) == [wall |-> c, mono |-> TRUE]
ThisOrder == [Timestamp |-> timestamp, Selections |-> selections]
Op(name, u, cs, ret, e) ==
    [op |-> name, user |-> u, choices |-> cs, ret |-> ret, err |-> e, before |-> ThisOrder]
Record(o) == IF lastOp = <<>> THEN <<o>> ELSE <<o, lastOp[1]>>

Set ==
    /\ clock < MaxOps
    /\ \E u \in Users, cs \in ChoiceLists :
         /\ selections' = OrderSet(selections, u, cs)
         /\ latest' = [latest EXCEPT ![u] = cs]
         /\ lastOp' = Record(Op("Set", u, cs, <<>>, ""))
    /\ clock' = clock + 1
    /\ timestamp' = Now(clock + 1)
    /\ UNCHANGED <<store, fresh>>
    /\ UNCHANGED parseVars
    /\ UNCHANGED brainVars

ClearUser ==
    /\ clock < MaxOps
    /\ \E u \in Users \cup {"test3"} :
         LET c == OrderClearUser(selections, u)
         IN  /\ selections' = c.sel
             /\ latest' = [x \in DOMAIN latest |-> IF x = u THEN <<>> ELSE latest[x]]
             /\ lastOp' = Record(Op("ClearUser", u, <<>>, c.ret, ""))
    /\ clock' = clock + 1
    /\ timestamp' = Now(clock + 1)
    /\ UNCHANGED <<store, fresh>>
    /\ UNCHANGED parseVars
    /\ UNCHANGED brainVars

Save ==
    /\ clock < MaxOps
    /\ LET r == OrderSave(store, ThisOrder)
       IN  /\ store' = r.store
           /\ lastOp' = Record(Op("Save", "", <<>>, <<>>, r.err))
    /\ clock' = clock + 1
    /\ UNCHANGED <<selections, timestamp, fresh, latest>>
    /\ UNCHANGED parseVars
    /\ UNCHANGED brainVars

\* Load into this Order
Load ==
    /\ clock < MaxOps
    /\ LET r == OrderLoad(store, ThisOrder)
       IN  /\ selections' = r.order.Selections
           /\ timestamp' = r.order.Timestamp
           /\ latest' = [u \in Users |-> UserEntry(r.order.Selections, u)]
           /\ lastOp' = Record(Op("Load", "", <<>>, <<>>, r.err))
    /\ clock' = clock + 1
    /\ UNCHANGED <<store, fresh>>
    /\ UNCHANGED parseVars
    /\ UNCHANGED brainVars

\* neworder := NewOrder(); neworder.Load(b)
LoadFresh ==
    /\ clock < MaxOps
    /\ LET r == OrderLoad(store, NewOrder)
       IN  /\ fresh' = r.order
           /\ lastOp' = Record(Op("LoadFresh", "", <<>>, <<>>, r.err))
    /\ clock' = clock + 1
    /\ UNCHANGED <<selections, timestamp, store, latest>>
    /\ UNCHANGED parseVars
    /\ UNCHANGED brainVars

OrderNext == Set \/ ClearUser \/ Save \/ Load \/ LoadFresh

OrderInit ==
    /\ selections = NewOrder.Selections
    /\ timestamp = NewOrder.Timestamp
    /\ clock = 0
    /\ store = <<>>
    /\ fresh = NewOrder
    /\ lastOp = <<>>
    /\ latest = [u \in Users |-> <<>>]
    /\ written = <<>>
    /\ sheet = <<>>
    /\ pc = "idle"
    /\ nameCol = <<>>
    /\ priceCol = <<>>
    /\ pending = {}
    /\ menuTitles = <<>>
    /\ lastTitleType = Unknonwn
    /\ idx = 1
    /\ currentType = Unknonwn
    /\ menuRows = <<>>
    /\ rowIdx = <<>>
    /\ date = NoDate
    /\ dateIdx = 0
    /\ stopIdx = 0
    /\ found = <<>>
    /\ err = ""

SpecOrder == OrderInit /\ [][OrderNext]_vars

ParseNext == ParseSheet \/ GetMenuTitle \/ ParseRow \/ Finish

ParseInit ==
    /\ sheet \in Sheets
    /\ pc = "sheet"
    /\ nameCol = <<>>
    /\ priceCol = <<>>
    /\ pending = {}
    /\ menuTitles = <<>>
    /\ lastTitleType = Unknonwn
    /\ idx = 1
    /\ currentType = Unknonwn
    /\ menuRows = <<>>
    /\ rowIdx = <<>>
    /\ date = NoDate
    /\ dateIdx = 0
    /\ stopIdx = 0
    /\ found = <<>>
    /\ err = ""
    /\ selections = NewOrder.Selections
    /\ timestamp = NewOrder.Timestamp
    /\ clock = 0
    /\ store = <<>>
    /\ fresh = NewOrder
    /\ lastOp = <<>>
    /\ latest = [u \in Users |-> <<>>]
    /\ written = <<>>

SpecParse == ParseInit /\ [][ParseNext]_vars

(***************************************************************************)
(* Properties of the parser                                                *)
(***************************************************************************)
\* the section a row of nameCol lies in: the type of the nearest title row above it
\* (Unknonwn when no title row lies above)
SectionAt(i) ==
    LET above == {j \in DOMAIN menuTitles : j < i}
    IN  IF above = {} THEN Unknonwn
        ELSE menuTitles[CHOOSE j \in above : \A k \in above : k <= j]

\* the positions in menuRows of the MenuRows that row i of nameCol emitted
EmittedBy(i) == {k \in 1..Len(menuRows) : rowIdx[k] = i}

\* row i of nameCol has been through the row loop
Processed(i) == pc \in {"rows", "finish", "done"} /\ i < idx

\* the text parsePrice hands to decimal.NewFromString for a price cell
CleanPrice(cell) == TrimSpace(RemoveAll(cell, "EUR"))

IsZero(d) == d.coef = 0

\* C3 (as claimed): a later-enumerated title resolved to a row above the row of an
\* earlier-enumerated title makes the parse fail; so in every Menu a parse returns, the
\* title rows carry non-decreasing section types from top to bottom, and so do the MenuRows.
C3_TitleOrderEnforced ==
    Returned =>
        /\ \A i \in DOMAIN menuTitles : \A j \in DOMAIN menuTitles :
               i < j => menuTitles[i] <= menuTitles[j]
        /\ \A a \in 1..Len(menuRows) : \A b \in 1..Len(menuRows) :
               a < b => menuRows[a].Type <= menuRows[b].Type

\* C4: when two different canonical titles both have their accepted best match (results[0],
\* score >= 0) on the same row, title location has failed with the duplicate-title error
\* and no Menu is returned, in whichever order the range visited the two titles.
C4_DuplicateTitleFails ==
    \A t1 \in DOMAIN found : \A t2 \in DOMAIN found :
        (t1 # t2 /\ found[t1].Index = found[t2].Index
                 /\ found[t1].Score >= 0 /\ found[t2].Score >= 0)
        => (Failed /\ err = "Unexptected title duplicate" /\ pc # "rows")

C4_Witness ==
    /\ Failed /\ err = "Unexptected title duplicate"
    /\ \E t1 \in DOMAIN found : \E t2 \in DOMAIN found :
          t1 < t2 /\ found[t1].Index = found[t2].Index /\ found[t1].Score >= 0

\* C6: once ParseSheet has looked at a sheet of fewer than 12 rows, it has failed with the
\* not-enough-rows error, and not one row, title or date of a Menu has been produced.
C6_ShortSheetFails ==
    (pc # "sheet" /\ Len(sheet) < 12)
    => (Failed /\ err = "not enough rows" /\ menuRows = <<>> /\ date = NoDate
        /\ nameCol = <<>>)

C6_Witness ==
    Failed /\ Len(sheet) = 11 /\ \E i \in 1..Len(sheet) : sheet[i][1] = sPrimi

\* C7: a row of nameCol that is exactly the multi-choice marker line, is not a title row
\* and lies in an open section, once through the row loop, has emitted exactly three
\* consecutive MenuRows: the three fixed names in order, each with the open section as
\* type, the price parsed from that row's price cell, and isDailyProposal false.
C7_MarkerExpandsToThree ==
    \A i \in 1..Len(nameCol) :
        (Processed(i) /\ nameCol[i] = MarkerLine /\ i \notin DOMAIN menuTitles
                      /\ SectionAt(i) # Unknonwn)
        => \E k \in 1..Len(menuRows) :
              /\ EmittedBy(i) = {k, k + 1, k + 2}
              /\ menuRows[k].Content = <<"Pasta", SP, "al", SP, "ragu">>
              /\ menuRows[k + 1].Content = <<"Pasta", SP, "al", SP, "pesto">>
              /\ menuRows[k + 2].Content = <<"Pasta", SP, "al", SP, "pomodoro">>
              /\ \A n \in {k, k + 1, k + 2} :
                    /\ menuRows[n].Type = SectionAt(i)
                    /\ menuRows[n].Type \in Primo..Panino
                    /\ menuRows[n].IsDailyProposal = FALSE
                    /\ menuRows[n].Price = menuRows[k].Price
              /\ IF i <= Len(priceCol) /\ NewFromString(CleanPrice(priceCol[i])).ok
                 THEN menuRows[k].Price = NewFromString(CleanPrice(priceCol[i])).val
                 ELSE IsZero(menuRows[k].Price)

C7_Witness ==
    /\ Returned
    /\ \E i \in 1..Len(nameCol) :
          /\ nameCol[i] = MarkerLine /\ SectionAt(i) = Primo
          /\ Cardinality(EmittedBy(i)) = 3
          /\ \A k \in EmittedBy(i) : menuRows[k].Price.coef = i

C9_PriceNonNegative ==
    Returned => \A k \in 1..Len(menuRows) : ~menuRows[k].Price.neg

(***************************************************************************)
(* Properties of the Order                                                 *)
(***************************************************************************)
RECURSIVE Occurrences(_, _)
Occurrences(ds, d) ==
    IF ds = <<>> THEN 0
    ELSE (IF Head(ds) = d THEN 1 ELSE 0) + Occurrences(Tail(ds), d)

RECURSIVE SumOver(_, _)
SumOver(S, d) ==
    IF S = {} THEN 0
    ELSE LET u == CHOOSE x \in S : TRUE
         IN  Occurrences(Contents(latest[u]), d) + SumOver(S \ {u}, d)

\* the users whose current selection (most recent Set, not cleared since) holds dish d
Selecting(d) == {u \in DOMAIN latest : Occurrences(Contents(latest[u]), d) > 0}

\* the entries of sel of users other than u
Others(sel, u) == SelectSeq(sel, LAMBDA e : e.user # u)
HasEntry(sel, u) == \E i \in 1..Len(sel) : sel[i].user = u

\* C1: String() is the aggregate of the current selections alone: its lines have distinct
\* dish contents, exactly the contents some user currently selects; a line's count is the
\* number of (user, occurrence) pairs currently selecting it and its bracket list names,
\* once each, exactly the users currently selecting it.
C1_StringIsRecomputedAggregate ==
    LET lines == OrderString(selections)
    IN  /\ \A i \in 1..Len(lines) : \A j \in 1..Len(lines) : i # j => lines[i][2] # lines[j][2]
        /\ {lines[i][2] : i \in 1..Len(lines)} = {d \in Dishes : Selecting(d) # {}}
        /\ \A i \in 1..Len(lines) :
              /\ lines[i][1] = SumOver(DOMAIN latest, lines[i][2])
              /\ {lines[i][3][k] : k \in 1..Len(lines[i][3])} = Selecting(lines[i][2])
              /\ Cardinality(Selecting(lines[i][2])) = Len(lines[i][3])

\* a Set has replaced a user's earlier, different choices while another user holds a dish
C1_Witness ==
    /\ lastOp # <<>> /\ lastOp[1].op = "Set"
    /\ HasEntry(lastOp[1].before.Selections, lastOp[1].user)
    /\ Contents(lastOp[1].choices) # <<>>
    /\ Contents(lastOp[1].choices) # Contents(UserEntry(lastOp[1].before.Selections, lastOp[1].user))
    /\ \E i \in 1..Len(OrderString(selections)) : OrderString(selections)[i][1] = 2
    /\ Len(selections) = 2

\* C2: when ClearUser(u) directly follows Set(u, cs), it returns the dish contents of cs in
\* the order they were added (one per line), and String() is then what the selections
\* before the Set give with u's entry left out.
C2_SetThenClear ==
    (Len(lastOp) = 2 /\ lastOp[1].op = "ClearUser" /\ lastOp[2].op = "Set"
                     /\ lastOp[1].user = lastOp[2].user)
    => /\ lastOp[1].ret = Contents(lastOp[2].choices)
       /\ OrderString(selections)
             = OrderString(Others(lastOp[2].before.Selections, lastOp[2].user))
       /\ ~HasEntry(selections, lastOp[1].user)

C2_Witness ==
    /\ Len(lastOp) = 2 /\ lastOp[1].op = "ClearUser" /\ lastOp[2].op = "Set"
    /\ lastOp[1].user = lastOp[2].user
    /\ lastOp[1].ret = <<"primo", "secondo">>
    /\ HasEntry(lastOp[2].before.Selections, lastOp[2].user)
    /\ selections # <<>>

\* C5: when Load into a fresh Order directly follows Save, both calls returned no error,
\* the store holds exactly one key, and the fresh Order has the String() and the formatted
\* timestamp of the saved Order.
C5_SaveLoadRoundTrip ==
    (Len(lastOp) = 2 /\ lastOp[1].op = "LoadFresh" /\ lastOp[2].op = "Save")
    => /\ lastOp[1].err = "" /\ lastOp[2].err = ""
       /\ Cardinality(DOMAIN store) = 1
       /\ OrderString(fresh.Selections) = OrderString(selections)
       /\ FormatTime(fresh.Timestamp) = FormatTime(timestamp)

C5_Witness ==
    /\ Len(lastOp) = 2 /\ lastOp[1].op = "LoadFresh" /\ lastOp[2].op = "Save"
    /\ OrderString(fresh.Selections) # <<>>
    /\ fresh.Timestamp # timestamp
    /\ FormatTime(timestamp) > 0

\* C10: ClearUser for a username without entry returns the empty string and no error, and
\* leaves the selections of every user, and String(), as they were.
C10_ClearUnknownUser ==
    (lastOp # <<>> /\ lastOp[1].op = "ClearUser"
                   /\ ~HasEntry(lastOp[1].before.Selections, lastOp[1].user))
    => /\ lastOp[1].ret = <<>>
       /\ lastOp[1].err = ""
       /\ selections = lastOp[1].before.Selections
       /\ OrderString(selections) = OrderString(lastOp[1].before.Selections)

C10_Witness ==
    /\ lastOp # <<>> /\ lastOp[1].op = "ClearUser" /\ lastOp[1].user = "test3"
    /\ Len(selections) = 2
    /\ lastOp[1].ret = <<>>

TitlesLocated == pc \in {"rows", "finish"} \/ (pc = "done" /\ err # "not enough rows")

\* the kind of error getMenuTitles returned ("" for none)
TitleErr == IF err \in {"Unexpected title order", "Unexptected title duplicate"} THEN err ELSE ""

\* the titles with an accepted best match, by the results fuzzy.Find gave
Accepted == {t \in DOMAIN found : found[t].Score >= 0}
Collision == \E t1 \in Accepted : \E t2 \in Accepted :
                 t1 # t2 /\ found[t1].Index = found[t2].Index

\* the same, read off the sheet's name column; TieFree: every title has one best row
TieFree == \A t \in DOMAIN Titles : Cardinality(FuzzyFind(Titles[t], nameCol)) <= 1
SheetCollision ==
    \E t1 \in DOMAIN Titles : \E t2 \in DOMAIN Titles :
        /\ t1 # t2
        /\ \E r1 \in FuzzyFind(Titles[t1], nameCol) : \E r2 \in FuzzyFind(Titles[t2], nameCol) :
              r1.Score >= 0 /\ r2.Score >= 0 /\ r1.Index = r2.Index
SheetTitles ==
    LET acc == {t \in DOMAIN Titles :
                   \E r \in FuzzyFind(Titles[t], nameCol) : r.Score >= 0}
        row(t) == (CHOOSE r \in FuzzyFind(Titles[t], nameCol) : TRUE).Index
    IN  [i \in {row(t) : t \in acc} |-> CHOOSE t \in acc : row(t) = i]

\* C12: the outcome of title location is a function of the name column and of the best
\* match fuzzy.Find reports for each title, whatever the order in which the range visited
\* the titles: it is the duplicate error exactly when two titles' accepted best matches
\* share a row, and otherwise the map that sends each accepted best row to its title; the
\* order error is never the outcome.
C12_OutcomeIgnoresVisitOrder ==
    TitlesLocated =>
        /\ TitleErr # "Unexpected title order"
        /\ TitleErr = "" =>
              /\ ~Collision
              /\ DOMAIN found = {t \in DOMAIN Titles : FuzzyFind(Titles[t], nameCol) # {}}
              /\ DOMAIN menuTitles = {found[t].Index : t \in Accepted}
              /\ \A t \in Accepted : menuTitles[found[t].Index] = t
        /\ TitleErr # "" => Collision
        /\ TieFree =>
              /\ (TitleErr = "Unexptected title duplicate") = SheetCollision
              /\ TitleErr = "" => menuTitles = SheetTitles

\* title location returned a map with the row of the last title above the row of the
\* first, the sheet on which a visit in ascending and in descending order would differ
\* if the order of the visit mattered
C12_Witness ==
    /\ TitlesLocated /\ TitleErr = "" /\ TieFree
    /\ \E i \in DOMAIN menuTitles : \E j \in DOMAIN menuTitles :
          i < j /\ menuTitles[i] = Panino /\ menuTitles[j] = Primo

\* the spreadsheet row the i-th entry of nameCol was read from: the i-th row of the sheet
\* that has a cell in the name column
RECURSIVE SheetRowFrom(_, _)
SheetRowFrom(i, from) ==
    IF Len(sheet[from]) >= NameColumn(sheet) + 1
    THEN (IF i = 1 THEN from ELSE SheetRowFrom(i - 1, from + 1))
    ELSE SheetRowFrom(i, from + 1)
SheetRowOf(i) == SheetRowFrom(i, 1)

\* the parsed value of the price cell on spreadsheet row n (zero without such a cell)
PriceOnSheetRow(n) ==
    IF Len(sheet[n]) >= NameColumn(sheet) + 2
    THEN LET d == NewFromString(CleanPrice(sheet[n][NameColumn(sheet) + 2]))
         IN  IF d.ok THEN d.val ELSE DecimalZero
    ELSE DecimalZero

\* C13 (as claimed): every emitted MenuRow has as price the parsed value of the price cell
\* on the spreadsheet row its name cell lies on, also when rows above have fewer cells
\* than the name or the price column needs.
C13_PriceOfSameRow ==
    \A k \in 1..Len(menuRows) :
        menuRows[k].Price = PriceOnSheetRow(SheetRowOf(rowIdx[k]))

\* C14: every MenuRow the row loop emitted has as type the section of the nearest title
\* row above the row it comes from, one of Primo..Panino and never Unknonwn or Empty; a
\* row recognized as a title, and a blank row, emitted no MenuRow.
C14_TypeIsOpenSection ==
    /\ \A k \in 1..Len(menuRows) :
          /\ menuRows[k].Type = SectionAt(rowIdx[k])
          /\ menuRows[k].Type \in Primo..Panino
          /\ menuRows[k].Type \notin {Unknonwn, Empty}
    /\ \A i \in 1..Len(nameCol) :
          (i \in DOMAIN menuTitles \/ normalizeSpaces(nameCol[i]) = <<>>) => EmittedBy(i) = {}

\* a Menu with dishes of two sections, read from a sheet with a blank row that went
\* through the row loop inside an open section
C14_Witness ==
    /\ Returned
    /\ \E a \in 1..Len(menuRows) : \E b \in 1..Len(menuRows) :
          menuRows[a].Type = Primo /\ menuRows[b].Type = Panino
    /\ \E i \in 1..Len(nameCol) :
          Processed(i) /\ nameCol[i] = <<>> /\ SectionAt(i) # Unknonwn

\* C15: once a blank row has gone through the row loop while the current section was
\* Panino, the loop has stopped at that row: every MenuRow comes from a row above it, no
\* row at or below it has emitted a MenuRow, no row below it has been read, and the
\* current section is still Panino.
C15_BlankAfterPaninoStops ==
    \A i \in 1..Len(nameCol) :
        (Processed(i) /\ normalizeSpaces(nameCol[i]) = <<>> /\ SectionAt(i) = Panino)
        => /\ stopIdx = i
           /\ idx = i + 1
           /\ pc \in {"finish", "done"}
           /\ currentType = Panino
           /\ \A k \in 1..Len(menuRows) : rowIdx[k] < i
           /\ \A j \in i..Len(nameCol) : EmittedBy(j) = {}

\* the loop stopped below a panino dish and above a dish row
C15_Witness ==
    /\ Returned /\ stopIdx # 0 /\ menuRows # <<>>
    /\ menuRows[Len(menuRows)].Type = Panino
    /\ \E j \in 1..Len(nameCol) : j > stopIdx /\ nameCol[j] = sDish

\* the first recognized title row (past the last row when there is none)
FirstTitle ==
    IF DOMAIN menuTitles = {} THEN Len(nameCol) + 1
    ELSE CHOOSE i \in DOMAIN menuTitles : \A j \in DOMAIN menuTitles : i <= j

\* C16: no row above the first recognized title row has emitted a MenuRow; when a row has
\* set the Menu's date, that row lies above the first title row and is a date line; a
\* date line at or below the first title has not set the date.
C16_AboveFirstTitle ==
    /\ \A k \in 1..Len(menuRows) : rowIdx[k] > FirstTitle
    /\ \A i \in 1..Len(nameCol) : i < FirstTitle => EmittedBy(i) = {}
    /\ dateIdx # 0 =>
          /\ dateIdx < FirstTitle
          /\ parseDate(normalizeSpaces(nameCol[dateIdx])).isDate
          /\ date = parseDate(normalizeSpaces(nameCol[dateIdx])).date
    /\ dateIdx = 0 => date \in {NoDate, Today}
    /\ \A i \in 1..Len(nameCol) : i >= FirstTitle => dateIdx # i

\* a date line above the first title set the date, and a date line below it became a dish
C16_Witness ==
    /\ Returned /\ dateIdx # 0 /\ date = DateLine
    /\ \E j \in 1..Len(nameCol) :
          j > FirstTitle /\ nameCol[j] = DateLine /\ EmittedBy(j) # {}

\* a dish row: a row that has emitted MenuRows and is not a multi-choice row
PlainDishRows == {k \in 1..Len(menuRows) : Cardinality(EmittedBy(rowIdx[k])) = 1}

\* the text of the row a MenuRow comes from, as parseRow receives it
RowText(k) == normalizeSpaces(nameCol[rowIdx[k]])

\* the text without one daily-proposal prefix: the first of the two that it begins with
StripOne(s) ==
    IF HasPrefix(s, dailyProposalPrefixes[1]) THEN TrimPrefix(s, dailyProposalPrefixes[1])
    ELSE IF HasPrefix(s, dailyProposalPrefixes[2]) THEN TrimPrefix(s, dailyProposalPrefixes[2])
    ELSE s

\* the text without the first prefix if it begins with it, and then without the second
\* prefix if what is left begins with it
StripEach(s) ==
    LET a == IF HasPrefix(s, dailyProposalPrefixes[1])
             THEN TrimPrefix(s, dailyProposalPrefixes[1]) ELSE s
    IN  IF HasPrefix(a, dailyProposalPrefixes[2])
        THEN TrimPrefix(a, dailyProposalPrefixes[2]) ELSE a

\* the name a dish row of section type gets from the text left by the classifier
DishName(text, type) == normalizeDish(MenuRow(TrimSpace(text), type, FALSE, DecimalZero)).Content

\* C17 (as claimed): for a non-empty, non-title row the classifier strips at most one
\* daily-proposal prefix in total, so a text beginning with the first prefix immediately
\* followed by the second keeps the second prefix; the proposal flag is true exactly when
\* a prefix was stripped.
C17_AtMostOnePrefix ==
    \A k \in PlainDishRows :
        /\ menuRows[k].Content = DishName(StripOne(RowText(k)), menuRows[k].Type)
        /\ menuRows[k].IsDailyProposal = (StripOne(RowText(k)) # RowText(k))

\* C17 (amended): for a non-empty, non-title row the classifier strips each of the two
\* daily-proposal prefixes once, in the order of the table, so a text beginning with the
\* first prefix immediately followed by the second loses both; the proposal flag is true
\* exactly when at least one prefix was stripped.
C17_EachPrefixStripped ==
    \A k \in PlainDishRows :
        /\ menuRows[k].Content = DishName(StripEach(RowText(k)), menuRows[k].Type)
        /\ menuRows[k].IsDailyProposal = (StripEach(RowText(k)) # RowText(k))

\* a row beginning with both prefixes became a dish named by what follows them
C17_Witness ==
    /\ Returned
    /\ \E k \in PlainDishRows :
          /\ nameCol[rowIdx[k]] = sBothPrefixes
          /\ menuRows[k].Content = <<"Orata">>
          /\ menuRows[k].IsDailyProposal

\* the rows that went through the row loop inside an open section and are neither
\* blank nor a title
DishRows ==
    {i \in 1..Len(nameCol) : /\ Processed(i)
                             /\ normalizeSpaces(nameCol[i]) # <<>>
                             /\ i \notin DOMAIN menuTitles
                             /\ SectionAt(i) # Unknonwn}

\* C18 (as claimed): every non-blank, non-title row inside an open section whose text is
\* not the multi-choice marker line has produced exactly one MenuRow; only a row equal
\* to the marker line has produced three.
C18_OneRowPerDish ==
    \A i \in DishRows :
        Cardinality(EmittedBy(i)) = IF normalizeSpaces(nameCol[i]) = MarkerLine THEN 3 ELSE 1

\* title t has no row with a match of non-negative score
NoMatch(t) == \A r \in FuzzyFind(Titles[t], nameCol) : r.Score < 0

\* what the claim says of one missing title: it is no error by itself, and the map that
\* title location returns has no entry for it
MissingTitleIsNoError ==
    /\ TitlesLocated =>
          /\ TitleErr \in {"", "Unexpected title order", "Unexptected title duplicate"}
          /\ TitleErr = "" =>
                \A t \in DOMAIN Titles :
                    NoMatch(t) => \A i \in DOMAIN menuTitles : menuTitles[i] # t
    /\ (TitlesLocated /\ \A t \in DOMAIN Titles : NoMatch(t))
          => (TitleErr = "" /\ menuTitles = <<>>)

\* ParseSheet is through with a sheet of at least 12 rows on which no title matches
DoneWithoutTitles ==
    pc = "done" /\ Len(sheet) >= 12 /\ \A t \in DOMAIN Titles : NoMatch(t)

MaxCalls == 3     \* calls on the store in one run

BrainKeys == {"order", "menu"}

eTest == [user |-> "test", choices |-> << <<"primo">> >>]
eTestOther == [user |-> "test", choices |-> << <<"secondo">> >>]
eTest2 == [user |-> "test2", choices |-> << <<"secondo">> >>]

\* the values handed to Set: Orders read at a clock with and without monotonic reading,
\* and a value encoding/json cannot encode
SetValues ==
    {[Timestamp |-> [wall |-> 1, mono |-> m], Selections |-> sel] :
        m \in BOOLEAN, sel \in {<<>>, <<eTest>>, <<eTest, eTest2>>}}
    \cup {Unencodable}

\* the structures handed to Get: a new Order, and Orders that hold entries already
GetOutputs ==
    {NewOrder}
    \cup {[Timestamp |-> [wall |-> 2, mono |-> TRUE], Selections |-> sel] :
            sel \in {<<eTestOther>>, <<eTest2>>}}

Call(name, key, val, out, got, e) ==
    [op |-> name, key |-> key, val |-> val, out |-> out, got |-> got, err |-> e,
     before |-> store]

CallSet ==
    /\ pc = "store"
    /\ clock < MaxCalls
    /\ \E key \in BrainKeys, val \in SetValues :
         LET r == BrainSet(store, key, val)
         IN  /\ store' = r.store
             /\ written' = IF r.err = "" THEN (key :> val) @@ written ELSE written
             /\ lastOp' = Record(Call("Set", key, val, NewOrder, NewOrder, r.err))
    /\ clock' = clock + 1
    /\ UNCHANGED <<selections, timestamp, fresh, latest>>
    /\ UNCHANGED parseVars

CallGet ==
    /\ pc = "store"
    /\ clock < MaxCalls
    /\ \E key \in BrainKeys, out \in GetOutputs :
         LET g == BrainGet(store, key, out)
         IN  lastOp' = Record(Call("Get", key, NewOrder, out, g.val, g.err))
    /\ clock' = clock + 1
    /\ UNCHANGED <<selections, timestamp, store, fresh, latest, written>>
    /\ UNCHANGED parseVars

BrainNext == CallSet \/ CallGet

BrainInit ==
    /\ store = <<>>
    /\ written = <<>>
    /\ clock = 0
    /\ lastOp = <<>>
    /\ selections = NewOrder.Selections
    /\ timestamp = NewOrder.Timestamp
    /\ fresh = NewOrder
    /\ latest = [u \in Users |-> <<>>]
    /\ sheet = <<>>
    /\ pc = "store"
    /\ nameCol = <<>>
    /\ priceCol = <<>>
    /\ pending = {}
    /\ menuTitles = <<>>
    /\ lastTitleType = Unknonwn
    /\ idx = 1
    /\ currentType = Unknonwn
    /\ menuRows = <<>>
    /\ rowIdx = <<>>
    /\ date = NoDate
    /\ dateIdx = 0
    /\ stopIdx = 0
    /\ found = <<>>
    /\ err = ""

SpecBrain == BrainInit /\ [][BrainNext]_vars

\* a value after the JSON round trip: the time keeps its wall clock reading only
RoundTrip(v) ==
    [Timestamp |-> [wall |-> v.Timestamp.wall, mono |-> FALSE], Selections |-> v.Selections]

\* what the claim says of a Get of a missing key and of a Set of an unencodable value
MissingAndUnencodable ==
    lastOp # <<>> =>
        /\ (lastOp[1].op = "Get" /\ lastOp[1].key \notin DOMAIN written)
              => (lastOp[1].err # "" /\ lastOp[1].got = lastOp[1].out)
        /\ (lastOp[1].op = "Set" /\ lastOp[1].val = Unencodable)
              => (lastOp[1].err # "" /\ store = lastOp[1].before)
        /\ (lastOp[1].op = "Set" /\ lastOp[1].val # Unencodable)
              => (lastOp[1].err = "" /\ lastOp[1].key \in DOMAIN store)

\* C20 (as claimed): Get of a key returns the value last written by Set for that key, as
\* the JSON round trip gives it; Get of a key that was never set returns an error and
\* leaves the output structure as it was; Set of a value that cannot be encoded returns
\* the error and writes nothing to the store.
C20_GetReturnsLastSet ==
    /\ MissingAndUnencodable
    /\ (lastOp # <<>> /\ lastOp[1].op = "Get" /\ lastOp[1].key \in DOMAIN written)
          => /\ lastOp[1].err = ""
             /\ lastOp[1].got = RoundTrip(written[lastOp[1].key])

\* what does hold of a Get of a key that was set: the output structure has the written
\* timestamp and, for every user of the written value, the written entry; it keeps the
\* entries it held for other users, and an output structure without entries holds
\* exactly the written value, as the JSON round trip gives it
GetDecodesIntoOutput ==
    (lastOp # <<>> /\ lastOp[1].op = "Get" /\ lastOp[1].key \in DOMAIN written)
    => LET w == RoundTrip(written[lastOp[1].key])
           got == lastOp[1].got
           out == lastOp[1].out
       IN  /\ lastOp[1].err = ""
           /\ got.Timestamp = w.Timestamp
           /\ \A u \in Users :
                 /\ HasEntry(got.Selections, u)
                       = (HasEntry(w.Selections, u) \/ HasEntry(out.Selections, u))
                 /\ UserEntry(got.Selections, u)
                       = IF HasEntry(w.Selections, u) THEN UserEntry(w.Selections, u)
                         ELSE UserEntry(out.Selections, u)
           /\ out.Selections = <<>> => got = w

====
